---------------------------- MODULE Spec2Model ----------------------------
(***************************************************************************)
(* Model of the micro-cap trading engine: the quote fetcher (market.js),   *)
(* the sizing helpers (risk.js), the order proposer and the main flow      *)
(* (index.js).  market.js and risk.js are stored in src/config.js.         *)
(*                                                                         *)
(* JavaScript numbers are modelled as exact rationals n/d with d >= 0,     *)
(* extended with 1/0 (Infinity), -1/0 (-Infinity) and 0/0 (NaN).  Binary   *)
(* floating point rounding and the sign of zero are not modelled.          *)
(***************************************************************************)
EXTENDS Integers, Sequences, FiniteSets, TLC

VARIABLES
    cfg,        \* the Settings singleton (config.js), read-only after Init
    equity,     \* INITIAL_EQUITY (index.js:17) or the equity argument
    mainpc,     \* position of main() (index.js:64-90)
    console,    \* what main() printed: <<stream, text>> entries
    req,        \* req[k]: state of the https request of fetchQuote(symbol, k)
    status,     \* status[k]: res.statusCode of attempt k (0: no response yet)
    promise,    \* promise[k]: the promise returned by fetchQuote(symbol, k)
    timer,      \* timer[k]: number of delay() timers armed by attempt k and pending
    requests,   \* history: number of https.get calls issued
    issued,     \* history: issued[k]: number of https.get calls of attempt k
    scheduled,  \* history: scheduled[k]: number of delay() calls of attempt k
    delays,     \* history: the ms arguments of delay(), in call order
    lastFailure,\* history: the failure of the most recent failed attempt
    timedOut,   \* history: timedOut[k] iff the 5000 ms timeout callback ran for k
    ppc,        \* position inside proposeOrder (index.js:27-58)
    pin,        \* arguments of the running proposeOrder call
    plocal,     \* locals of proposeOrder: sharesRisk, sharesLiq, shares
    presult,    \* value returned by proposeOrder
    divisions,  \* history: divisions by an expression in price evaluated so far
    proposeCalls \* history: number of proposeOrder invocations

vars == <<cfg, equity, mainpc, console, req, status, promise, timer, requests,
          issued, scheduled, delays, lastFailure, timedOut, ppc, pin, plocal,
          presult, divisions, proposeCalls>>

fetchVars == <<req, status, promise, timer, requests, issued, scheduled, delays,
               lastFailure, timedOut>>
proposeVars == <<ppc, pin, plocal, presult, divisions, proposeCalls>>

(***************************************************************************)
(* Bounds of the model.                                                    *)
(***************************************************************************)
MaxRetries == 3

(***************************************************************************)
(* JavaScript number semantics.                                            *)
(***************************************************************************)
Abs(x) == IF x < 0 THEN -x ELSE x

Sgn(x) == IF x < 0 THEN -1 ELSE IF x > 0 THEN 1 ELSE 0

RECURSIVE Gcd(_, _)
Gcd(a, b) == IF b = 0 THEN a ELSE Gcd(b, a % b)

\* Normal form of n/d (d >= 0): lowest terms; d = 0 keeps only the sign of n.
Norm(n, d) ==
    IF d = 0 THEN [n |-> Sgn(n), d |-> 0]
    ELSE LET g == Gcd(Abs(n), d) IN [n |-> n \div g, d |-> d \div g]

Num(i) == [n |-> i, d |-> 1]
Frac(n, d) == Norm(n, d)
NaN == [n |-> 0, d |-> 0]

IsNaN(a) == a.n = 0 /\ a.d = 0

\* a * b
Mul(a, b) == Norm(a.n * b.n, a.d * b.d)

\* a / b
Div(a, b) ==
    IF b.d = 0
    THEN (IF IsNaN(b) \/ a.d = 0 THEN NaN ELSE Num(0))
    ELSE IF b.n = 0
    THEN Norm(a.n, 0)
    ELSE Norm(a.n * b.d * Sgn(b.n), a.d * Abs(b.n))

\* a + b
Add(a, b) ==
    IF IsNaN(a) \/ IsNaN(b) THEN NaN
    ELSE IF a.d = 0 /\ b.d = 0 THEN (IF a.n = b.n THEN a ELSE NaN)
    ELSE IF a.d = 0 THEN a
    ELSE IF b.d = 0 THEN b
    ELSE Norm(a.n * b.d + b.n * a.d, a.d * b.d)

\* a - b
Sub(a, b) == Add(a, [n |-> -b.n, d |-> b.d])

\* a < b
Lt(a, b) ==
    /\ ~IsNaN(a)
    /\ ~IsNaN(b)
    /\ IF a.d = 0 /\ b.d = 0 THEN a.n < b.n
       ELSE IF a.d = 0 THEN a.n < 0
       ELSE IF b.d = 0 THEN b.n > 0
       ELSE a.n * b.d < b.n * a.d

\* a <= b
Le(a, b) == ~IsNaN(a) /\ ~IsNaN(b) /\ ~Lt(b, a)

\* a > b
Gt(a, b) == Lt(b, a)

\* !a is false
Truthy(a) == ~IsNaN(a) /\ a.n # 0

MathFloor(a) == IF a.d = 0 THEN a ELSE Num(a.n \div a.d)

MathMax(a, b) == IF IsNaN(a) \/ IsNaN(b) THEN NaN ELSE IF Lt(a, b) THEN b ELSE a

MathMin(a, b) == IF IsNaN(a) \/ IsNaN(b) THEN NaN ELSE IF Lt(b, a) THEN b ELSE a

RECURSIVE MathPow2(_)
MathPow2(k) == IF k <= 0 THEN 1 ELSE 2 * MathPow2(k - 1)

\* Number(x.toFixed(4)): the nearest multiple of 1/10000, halves away from zero.
ToFixed4(a) ==
    IF a.d = 0 THEN a
    ELSE Norm(Sgn(a.n) * ((2 * 10000 * Abs(a.n) + a.d) \div (2 * a.d)), 10000)

IsInteger(a) == a.d = 1

(***************************************************************************)
(* config.js: the Settings singleton.                                      *)
(***************************************************************************)
DefaultSettings ==
    [ targetRiskBps      |-> Num(15),
      hardStopPct        |-> Frac(12, 100),
      trailingAtrMult    |-> Num(3),
      minAdvUsd          |-> Num(100000),
      maxPctAdv          |-> Frac(5, 100),
      slippageBps        |-> Num(40),
      apiRetries         |-> 3,
      apiBackoffMs       |-> 500,
      simulateMarketData |-> FALSE,
      simulatedPrice     |-> Num(1),
      simulatedVolume    |-> Num(100000) ]

(***************************************************************************)
(* risk.js                                                                 *)
(***************************************************************************)
maxSharesByLiquidity(advUsd, price, maxPctAdv) ==
    IF ~Truthy(advUsd) \/ ~Truthy(price) \/ Le(advUsd, Num(0)) \/ Le(price, Num(0))
    THEN Num(0)
    ELSE LET usdCap == Mul(advUsd, maxPctAdv)
         IN MathFloor(Div(usdCap, price))

riskScaledShares(price, dailyVol, eq, targetBps) ==
    LET vol == IF Gt(dailyVol, Num(0)) THEN dailyVol ELSE Frac(1, 100000000)
        riskBudget == Mul(eq, Div(targetBps, Num(10000)))
        shares == Div(riskBudget, Mul(price, vol))
    IN MathMax(Num(0), MathFloor(shares))

\* computeStop with Math.min in place of Math.max: the looser stop.
computeStopLooser(entry, atr, hardStopPct, trailingMult) ==
    LET hard == Mul(entry, Sub(Num(1), hardStopPct))
        trailing == Sub(entry, Mul(trailingMult, atr))
    IN MathMin(hard, trailing)

computeStop(entry, atr, hardStopPct, trailingMult) ==
    LET hard == Mul(entry, Sub(Num(1), hardStopPct))
        trailing == Sub(entry, Mul(trailingMult, atr))
    IN MathMax(hard, trailing)

shouldExit(last, stopLevel, holdingDays, timeStopDays) ==
    Le(last, stopLevel) \/ holdingDays >= timeStopDays


(***************************************************************************)
(* index.js: proposeOrder, one step per statement group.                   *)
(***************************************************************************)
Attempts == 0 .. (MaxRetries + 1)

\* The decision stub of main(); the symbol is kept as its characters.
StubDecision ==
    [action |-> "BUY", symbol |-> <<"A", "B", "C">>, confidence |-> Frac(3, 4)]

DailyVol == Frac(2, 100)

NoQuote == [price |-> NaN, volume |-> NaN, advUsd |-> NaN]

NoOrder == [symbol |-> << >>, side |-> "", qty |-> NaN, limit |-> NaN, stop |-> NaN]

NoResult == [tag |-> "none", error |-> "", order |-> NoOrder]

NoLocals == [sharesRisk |-> NaN, sharesLiq |-> NaN, shares |-> NaN]

ErrorResult(msg) == [tag |-> "error", error |-> msg, order |-> NoOrder]

OrderResult(o) == [tag |-> "order", error |-> "", order |-> o]

\* The state on entry of proposeOrder(decision, quote, equity).
EnterProposeOrder(decision, quote, eq) ==
    /\ ppc' = "entry"
    /\ pin' = [decision |-> decision, quote |-> quote, equity |-> eq]
    /\ plocal' = NoLocals
    /\ presult' = NoResult
    /\ proposeCalls' = proposeCalls + 1
    /\ UNCHANGED divisions

\* advUsd < config.minAdvUsd
InsufficientLiquidity(advUsd) == Lt(advUsd, cfg.minAdvUsd)

\* shares <= 0
ZeroSharesLax(shares) == Lt(shares, Num(0))
ZeroShares(shares) == Le(shares, Num(0))

\* Math.min(sharesRisk, sharesLiq)
FinalShares(sharesRisk, sharesLiq) == MathMin(sharesRisk, sharesLiq)

\* The guard of maxSharesByLiquidity: TRUE iff it returns before dividing.
LiquidityGuard(advUsd, price) ==
    ~Truthy(advUsd) \/ ~Truthy(price) \/ Le(advUsd, Num(0)) \/ Le(price, Num(0))

P_LiquidityCheck ==
    /\ ppc = "entry"
    /\ IF InsufficientLiquidity(pin.quote.advUsd)
       THEN /\ presult' = ErrorResult("Insufficient liquidity")
            /\ ppc' = "returned"
       ELSE /\ ppc' = "sizeRisk"
            /\ UNCHANGED presult
    /\ UNCHANGED <<pin, plocal, divisions, proposeCalls>>
    /\ UNCHANGED <<cfg, equity, mainpc, console, fetchVars>>

P_RiskScaledShares ==
    /\ ppc = "sizeRisk"
    /\ plocal' = [plocal EXCEPT !.sharesRisk =
           riskScaledShares(pin.quote.price, DailyVol, pin.equity, cfg.targetRiskBps)]
    /\ divisions' = divisions + 1
    /\ ppc' = "sizeLiq"
    /\ UNCHANGED <<pin, presult, proposeCalls>>
    /\ UNCHANGED <<cfg, equity, mainpc, console, fetchVars>>

P_MaxSharesByLiquidity ==
    /\ ppc = "sizeLiq"
    /\ plocal' = [plocal EXCEPT !.sharesLiq =
           maxSharesByLiquidity(pin.quote.advUsd, pin.quote.price, cfg.maxPctAdv)]
    /\ divisions' = IF LiquidityGuard(pin.quote.advUsd, pin.quote.price)
                    THEN divisions ELSE divisions + 1
    /\ ppc' = "minCheck"
    /\ UNCHANGED <<pin, presult, proposeCalls>>
    /\ UNCHANGED <<cfg, equity, mainpc, console, fetchVars>>

P_ZeroCheck ==
    /\ ppc = "minCheck"
    /\ LET shares == FinalShares(plocal.sharesRisk, plocal.sharesLiq)
       IN /\ plocal' = [plocal EXCEPT !.shares = shares]
          /\ IF ZeroShares(shares)
             THEN /\ presult' = ErrorResult("Zero shares after constraints")
                  /\ ppc' = "returned"
             ELSE /\ ppc' = "build"
                  /\ UNCHANGED presult
    /\ UNCHANGED <<pin, divisions, proposeCalls>>
    /\ UNCHANGED <<cfg, equity, mainpc, console, fetchVars>>

P_BuildOrder ==
    /\ ppc = "build"
    /\ LET price == pin.quote.price
           atr == Mul(price, Frac(2, 100))
           stopLevel == computeStop(price, atr, cfg.hardStopPct, cfg.trailingAtrMult)
           limitPrice == Mul(price, Add(Num(1), Div(cfg.slippageBps, Num(10000))))
       IN presult' = OrderResult([symbol |-> pin.decision.symbol,
                                  side   |-> pin.decision.action,
                                  qty    |-> plocal.shares,
                                  limit  |-> ToFixed4(limitPrice),
                                  stop   |-> ToFixed4(stopLevel)])
    /\ ppc' = "returned"
    /\ UNCHANGED <<pin, plocal, divisions, proposeCalls>>
    /\ UNCHANGED <<cfg, equity, mainpc, console, fetchVars>>

(***************************************************************************)
(* market.js: fetchQuote and delay.                                        *)
(*                                                                         *)
(* Per request Node delivers either the response callback followed by      *)
(* 'end' on the response, or one 'error' on the request.  req.destroy()    *)
(* before the response makes Node emit 'error' (socket hang up) on the     *)
(* request; after the response it aborts the response, which then emits    *)
(* neither 'end' nor an 'error' on the request.  Promise reactions run as  *)
(* microtasks before the next event, so a settlement reaches the outer     *)
(* promises of the retry chain within the same step.                       *)
(***************************************************************************)
NoPromise == [st |-> "none", quote |-> NoQuote, kind |-> "", detail |-> "", code |-> 0]

Pending == [NoPromise EXCEPT !.st = "pending"]

Resolved(q) == [NoPromise EXCEPT !.st = "resolved", !.quote = q]

Rejected(kind, detail, code) ==
    [NoPromise EXCEPT !.st = "rejected", !.kind = kind, !.detail = detail, !.code = code]

NoFailure == [attempt |-> -1, kind |-> "", detail |-> "", code |-> 0]

InFlight == {"pending", "responding"}

\* resolve / reject of attempt k's promise, followed through .then(resolve)
\* .catch(reject) of the attempts that wait for it.  Settling twice is a no-op.
SettleChain(p, k, outcome) ==
    [j \in DOMAIN p |-> IF j <= k /\ p[j].st = "pending" THEN outcome ELSE p[j]]

\* attempt < config.apiRetries
CanRetryInclusive(attempt) == attempt <= cfg.apiRetries
CanRetry(attempt) == attempt < cfg.apiRetries

\* config.apiBackoffMs * Math.pow(2, attempt)
BackoffLinear(attempt) == cfg.apiBackoffMs * (attempt + 1)
Backoff(attempt) == cfg.apiBackoffMs * MathPow2(attempt)

\* statusCode >= 200 && statusCode < 300
IsSuccess(statusCode) == statusCode >= 200 /\ statusCode < 300

\* Number(field) of a field of the first result: a missing field gives NaN.
NumberOf(field) == IF field.present THEN field.value ELSE NaN

\* The quote built from a parsed result.
QuoteOf(result) ==
    LET price == NumberOf(result.regularMarketPrice)
        volume == NumberOf(result.regularMarketVolume)
    IN [price |-> price, volume |-> volume, advUsd |-> Mul(price, volume)]

SimulatedQuote ==
    [price  |-> cfg.simulatedPrice,
     volume |-> cfg.simulatedVolume,
     advUsd |-> Mul(cfg.simulatedPrice, cfg.simulatedVolume)]

\* fetchQuote without the simulation branch: the request is always issued.
FetchQuoteCallAlwaysNetwork(k, p) ==
    /\ promise' = [p EXCEPT ![k] = Pending]
    /\ req' = [req EXCEPT ![k] = "pending"]
    /\ requests' = requests + 1
    /\ issued' = [issued EXCEPT ![k] = @ + 1]

\* fetchQuote(symbol, k) up to the return of its promise, given the promises p.
FetchQuoteCall(k, p) ==
    IF cfg.simulateMarketData
    THEN /\ promise' = SettleChain([p EXCEPT ![k] = Pending], k, Resolved(SimulatedQuote))
         /\ UNCHANGED <<req, requests, issued>>
    ELSE /\ promise' = [p EXCEPT ![k] = Pending]
         /\ req' = [req EXCEPT ![k] = "pending"]
         /\ requests' = requests + 1
         /\ issued' = [issued EXCEPT ![k] = @ + 1]

\* The failure branch shared by the three handlers, with the bug of passing
\* the call instead of a callback: delay(backoff).then(fetchQuote(symbol, attempt + 1)).
RetryOrRejectEager(k, kind, detail, code) ==
    /\ lastFailure' = [attempt |-> k, kind |-> kind, detail |-> detail, code |-> code]
    /\ IF CanRetry(k)
       THEN /\ delays' = Append(delays, Backoff(k))
            /\ timer' = [timer EXCEPT ![k] = @ + 1]
            /\ scheduled' = [scheduled EXCEPT ![k] = @ + 1]
            /\ req' = [req EXCEPT ![k] = "failed", ![k + 1] = "pending"]
            /\ promise' = [promise EXCEPT ![k + 1] = Pending]
            /\ requests' = requests + 1
            /\ issued' = [issued EXCEPT ![k + 1] = @ + 1]
       ELSE /\ promise' = SettleChain(promise, k, Rejected(kind, detail, code))
            /\ req' = [req EXCEPT ![k] = "failed"]
            /\ UNCHANGED <<delays, timer, scheduled, requests, issued>>

\* The failure branch shared by the three handlers: the attempt is over; retry
\* after the backoff while attempts remain, reject otherwise.
RetryOrReject(k, kind, detail, code) ==
    /\ lastFailure' = [attempt |-> k, kind |-> kind, detail |-> detail, code |-> code]
    /\ req' = [req EXCEPT ![k] = "failed"]
    /\ UNCHANGED <<requests, issued>>
    /\ IF CanRetry(k)
       THEN /\ delays' = Append(delays, Backoff(k))
            /\ timer' = [timer EXCEPT ![k] = @ + 1]
            /\ scheduled' = [scheduled EXCEPT ![k] = @ + 1]
            /\ UNCHANGED promise
       ELSE /\ promise' = SettleChain(promise, k, Rejected(kind, detail, code))
            /\ UNCHANGED <<delays, timer, scheduled>>

StatusCodes == {200, 429, 500}

Field(v) == [present |-> TRUE, value |-> v]
Missing == [present |-> FALSE, value |-> NaN]

PriceFields == {Missing, Field(Num(0)), Field(Num(10))}
VolumeFields == {Missing, Field(Num(5000)), Field(Num(50000))}

\* Response bodies: unparsable text, JSON without a first result, or JSON whose
\* first result has the given fields.
Bodies ==
    { [json |-> FALSE, hasResult |-> FALSE,
       regularMarketPrice |-> Missing, regularMarketVolume |-> Missing],
      [json |-> TRUE, hasResult |-> FALSE,
       regularMarketPrice |-> Missing, regularMarketVolume |-> Missing] }
    \cup
    { [json |-> TRUE, hasResult |-> TRUE,
       regularMarketPrice |-> p, regularMarketVolume |-> v] :
        p \in PriceFields, v \in VolumeFields }

\* The response callback: statusCode is read, listeners for 'data' and 'end' are added.
Response(k) ==
    /\ req[k] = "pending"
    /\ \E code \in StatusCodes : status' = [status EXCEPT ![k] = code]
    /\ req' = [req EXCEPT ![k] = "responding"]
    /\ UNCHANGED <<promise, timer, requests, issued, scheduled, delays,
                   lastFailure, timedOut>>
    /\ UNCHANGED <<cfg, equity, mainpc, console, proposeVars>>

\* res.on('end'): status check, JSON parse, resolve or retry / reject.
End(k) ==
    /\ req[k] = "responding"
    /\ \E body \in Bodies :
         IF ~IsSuccess(status[k])
         THEN RetryOrReject(k, "http-status", "HTTP status", status[k])
         ELSE IF ~body.json
         THEN RetryOrReject(k, "parse", "JSON.parse", status[k])
         ELSE IF ~body.hasResult
         THEN RetryOrReject(k, "parse", "No quote data returned", status[k])
         ELSE /\ req' = [req EXCEPT ![k] = "succeeded"]
              /\ promise' = SettleChain(promise, k, Resolved(QuoteOf(body)))
              /\ UNCHANGED <<timer, scheduled, delays, lastFailure, requests, issued>>
    /\ UNCHANGED <<status, timedOut>>
    /\ UNCHANGED <<cfg, equity, mainpc, console, proposeVars>>

\* req.on('error'): a transport error before or during the response.
RequestError(k) ==
    /\ req[k] \in InFlight
    /\ \E e \in {"ECONNREFUSED", "ECONNRESET"} : RetryOrReject(k, "network", e, 0)
    /\ UNCHANGED <<status, timedOut>>
    /\ UNCHANGED <<cfg, equity, mainpc, console, proposeVars>>

\* The timeout callback before any response: req.destroy() makes the request
\* emit 'error' (socket hang up), which runs the 'error' handler.
TimeoutBeforeResponse(k) ==
    /\ req[k] = "pending"
    /\ timedOut' = [timedOut EXCEPT ![k] = TRUE]
    /\ RetryOrReject(k, "network", "socket hang up", 0)
    /\ UNCHANGED status
    /\ UNCHANGED <<cfg, equity, mainpc, console, proposeVars>>

\* The timeout callback after the response callback and before 'end':
\* req.destroy() aborts the response; no handler of fetchQuote runs.
TimeoutDuringResponse(k) ==
    /\ req[k] = "responding"
    /\ timedOut' = [timedOut EXCEPT ![k] = TRUE]
    /\ req' = [req EXCEPT ![k] = "aborted"]
    /\ UNCHANGED <<status, promise, timer, requests, issued, scheduled, delays,
                   lastFailure>>
    /\ UNCHANGED <<cfg, equity, mainpc, console, proposeVars>>

\* The timer of delay(backoff) fires: .then(() => fetchQuote(symbol, attempt + 1)).
BackoffElapsed(k) ==
    /\ timer[k] > 0
    /\ k + 1 \in Attempts
    /\ timer' = [timer EXCEPT ![k] = @ - 1]
    /\ FetchQuoteCall(k + 1, promise)
    /\ UNCHANGED <<status, scheduled, delays, lastFailure, timedOut>>
    /\ UNCHANGED <<cfg, equity, mainpc, console, proposeVars>>

(***************************************************************************)
(* decisionValidator.js and main() of index.js.                            *)
(***************************************************************************)
VALID_ACTIONS == {"BUY", "SELL", "HOLD"}

UpperAlnum ==
    {"A", "B", "C", "D", "E", "F", "G", "H", "I", "J", "K", "L", "M", "N", "O",
     "P", "Q", "R", "S", "T", "U", "V", "W", "X", "Y", "Z",
     "0", "1", "2", "3", "4", "5", "6", "7", "8", "9"}

validateDecision(decision) ==
    IF decision.action \notin VALID_ACTIONS
    THEN [valid |-> FALSE, error |-> "Invalid action"]
    ELSE IF Len(decision.symbol) = 0
            \/ \E i \in 1 .. Len(decision.symbol) : decision.symbol[i] \notin UpperAlnum
    THEN [valid |-> FALSE, error |-> "Symbol must be a non-empty uppercase string"]
    ELSE IF IsNaN(decision.confidence) \/ Lt(decision.confidence, Num(0))
            \/ Gt(decision.confidence, Num(1))
    THEN [valid |-> FALSE, error |-> "Confidence must be a number between 0 and 1"]
    ELSE [valid |-> TRUE, error |-> ""]

MainValidate ==
    /\ mainpc = "start"
    /\ IF validateDecision(StubDecision).valid
       THEN /\ mainpc' = "fetch"
            /\ UNCHANGED console
       ELSE /\ mainpc' = "exited"
            /\ console' = Append(console, <<"error", "Decision invalid">>)
    /\ UNCHANGED <<cfg, equity, fetchVars, proposeVars>>

\* const quote = await fetchQuote(decision.symbol): the call.
MainCallFetch ==
    /\ mainpc = "fetch"
    /\ mainpc' = "awaiting"
    /\ FetchQuoteCall(0, promise)
    /\ UNCHANGED <<status, timer, scheduled, delays, lastFailure, timedOut>>
    /\ UNCHANGED <<cfg, equity, console, proposeVars>>

\* The await resumes with a quote: proposeOrder is called.
MainQuoteReceived ==
    /\ mainpc = "awaiting"
    /\ promise[0].st = "resolved"
    /\ mainpc' = "proposing"
    /\ EnterProposeOrder(StubDecision, promise[0].quote, equity)
    /\ UNCHANGED <<cfg, equity, console, fetchVars>>

\* The catch block with the bug of proposing on a quote that was never fetched.
MainFetchFailedProposes ==
    /\ mainpc = "awaiting"
    /\ promise[0].st = "rejected"
    /\ mainpc' = "proposing"
    /\ EnterProposeOrder(StubDecision, NoQuote, equity)
    /\ UNCHANGED <<cfg, equity, console, fetchVars>>

\* The await throws: the catch block reports the error.
MainFetchFailed ==
    /\ mainpc = "awaiting"
    /\ promise[0].st = "rejected"
    /\ mainpc' = "done"
    /\ console' = Append(console, <<"error", "Error fetching market data">>)
    /\ UNCHANGED <<cfg, equity, fetchVars, proposeVars>>

\* proposeOrder has returned: the result is printed.
MainReport ==
    /\ mainpc = "proposing"
    /\ ppc = "returned"
    /\ mainpc' = "done"
    /\ console' = IF presult.tag = "error"
                  THEN Append(console, <<"error", "Order generation failed">>)
                  ELSE Append(console, <<"log", "Proposed order">>)
    /\ UNCHANGED <<cfg, equity, fetchVars, proposeVars>>

(***************************************************************************)
(* The program: main() run once under each configuration.                  *)
(***************************************************************************)
BackoffValues == {100, 500}

MainConfigValues ==
    { [DefaultSettings EXCEPT !.apiRetries = r, !.apiBackoffMs = b,
                              !.simulateMarketData = s, !.simulatedPrice = sp] :
        r \in 0 .. MaxRetries, b \in BackoffValues, s \in BOOLEAN,
        sp \in {Num(1), Num(10)} }

MainEquityValues == {Num(10000), Num(0)}

IdleFetch ==
    /\ req = [k \in Attempts |-> "none"]
    /\ status = [k \in Attempts |-> 0]
    /\ promise = [k \in Attempts |-> NoPromise]
    /\ timer = [k \in Attempts |-> 0]
    /\ requests = 0
    /\ issued = [k \in Attempts |-> 0]
    /\ scheduled = [k \in Attempts |-> 0]
    /\ delays = << >>
    /\ lastFailure = NoFailure
    /\ timedOut = [k \in Attempts |-> FALSE]

Init ==
    /\ cfg \in MainConfigValues
    /\ equity \in MainEquityValues
    /\ mainpc = "start"
    /\ console = << >>
    /\ IdleFetch
    /\ ppc = "idle"
    /\ pin = [decision |-> StubDecision, quote |-> NoQuote, equity |-> NaN]
    /\ plocal = NoLocals
    /\ presult = NoResult
    /\ divisions = 0
    /\ proposeCalls = 0

Next ==
    \/ MainValidate
    \/ MainCallFetch
    \/ \E k \in Attempts : Response(k)
    \/ \E k \in Attempts : End(k)
    \/ \E k \in Attempts : RequestError(k)
    \/ \E k \in Attempts : TimeoutBeforeResponse(k)
    \/ \E k \in Attempts : TimeoutDuringResponse(k)
    \/ \E k \in Attempts : BackoffElapsed(k)
    \/ MainQuoteReceived
    \/ MainFetchFailed
    \/ P_LiquidityCheck
    \/ P_RiskScaledShares
    \/ P_MaxSharesByLiquidity
    \/ P_ZeroCheck
    \/ P_BuildOrder
    \/ MainReport

Spec == Init /\ [][Next]_vars

(***************************************************************************)
(* proposeOrder called on its own: every quote, equity and configuration   *)
(* of the input sets below.                                                *)
(***************************************************************************)
PriceValues ==
    {NaN, Num(-10), Num(0), Frac(101, 1000), Frac(1, 2), Num(10), Num(400)}

AdvUsdValues == {NaN, Num(-1), Num(0), Num(50000), Num(100000), Num(500000)}

EquityValues == {Num(-10000), Num(0), Num(100), Num(10000)}

ConfigValues ==
    { [DefaultSettings EXCEPT !.maxPctAdv = m, !.targetRiskBps = t,
                              !.trailingAtrMult = a] :
        m \in {Frac(5, 100), Num(0)}, t \in {Num(15), Num(30)},
        a \in {Num(3), Num(8)} }

InitPropose ==
    /\ cfg \in ConfigValues
    /\ equity \in EquityValues
    /\ mainpc = "module"
    /\ console = << >>
    /\ IdleFetch
    /\ ppc = "entry"
    /\ \E p \in PriceValues, a \in AdvUsdValues :
           pin = [decision |-> StubDecision,
                  quote |-> [price |-> p, volume |-> NaN, advUsd |-> a],
                  equity |-> equity]
    /\ plocal = NoLocals
    /\ presult = NoResult
    /\ divisions = 0
    /\ proposeCalls = 1

NextPropose ==
    \/ P_LiquidityCheck
    \/ P_RiskScaledShares
    \/ P_MaxSharesByLiquidity
    \/ P_ZeroCheck
    \/ P_BuildOrder

SpecPropose == InitPropose /\ [][NextPropose]_vars

(***************************************************************************)
(* Properties of fetchQuote.                                               *)
(***************************************************************************)
R == cfg.apiRetries

\* C1: one top-level fetchQuote call in non-simulation mode issues at most
\* R + 1 network requests, whatever the attempts answer and in whatever order
\* their callbacks fire.
C1_AtMostRPlusOneRequests ==
    ~cfg.simulateMarketData => requests <= R + 1

C1_Witness ==
    /\ ~cfg.simulateMarketData
    /\ R >= 2
    /\ requests = R + 1
    /\ promise[0].st = "rejected"

\* C2: the k-th wait (k from 0) is exactly apiBackoffMs * 2^k for every failure
\* class, so each wait is twice the one before; a call that ends in the terminal
\* failure has made R + 1 attempts separated by R waits, which for R = 3 are
\* B, 2B, 4B.
C2_BackoffDoubles ==
    /\ \A i \in 1 .. Len(delays) : delays[i] = cfg.apiBackoffMs * MathPow2(i - 1)
    /\ \A i \in 1 .. Len(delays) - 1 : delays[i + 1] = 2 * delays[i]
    /\ \A k \in Attempts : scheduled[k] > 0 => Len(delays) >= k + 1
    /\ promise[0].st = "rejected" => requests = R + 1 /\ Len(delays) = R
    /\ (promise[0].st = "rejected" /\ R = 3) =>
           delays = <<cfg.apiBackoffMs, 2 * cfg.apiBackoffMs, 4 * cfg.apiBackoffMs>>

C2_Witness ==
    /\ R = 3
    /\ requests = 4
    /\ delays = <<cfg.apiBackoffMs, 2 * cfg.apiBackoffMs, 4 * cfg.apiBackoffMs>>
    /\ promise[0].st = "rejected"
    /\ promise[0].kind = "http-status"
    /\ promise[0].code = 429

\* C3: at most one request is in flight; request k + 1 is issued only after
\* attempt k has finished with a failure and its backoff wait has elapsed; a
\* failed attempt schedules at most one retry, and only a failed attempt waits.
C3_OneInFlightInOrder ==
    /\ Cardinality({k \in Attempts : req[k] \in InFlight}) <= 1
    /\ \A k \in Attempts :
         /\ issued[k] <= 1
         /\ scheduled[k] <= 1
         /\ scheduled[k] > 0 => req[k] = "failed"
         /\ (k > 0 /\ issued[k] > 0) =>
                /\ req[k - 1] = "failed"
                /\ scheduled[k - 1] = 1
                /\ timer[k - 1] = 0

C3_Witness ==
    /\ issued[2] = 1
    /\ req[2] \in InFlight
    /\ req[1] = "failed"
    /\ timer[1] = 0

\* The kind a failed final attempt has for the caller: a timeout is a
\* transport error.
FinalKind == IF req[R] = "aborted" THEN "network" ELSE lastFailure.kind

\* C4: when attempt R fails the call ends in a rejection delivered to the
\* caller whose kind is that of the final attempt's failure; no failure is
\* swallowed and no request follows.
C4_ExhaustedIsTerminalFailure ==
    (~cfg.simulateMarketData /\ req[R] \in {"failed", "aborted"}) =>
        /\ promise[0].st = "rejected"
        /\ promise[0].kind = FinalKind
        /\ lastFailure.attempt = R
        /\ requests = R + 1
        /\ timer[R] = 0

\* The part of C4 that the code keeps: a failure of attempt R that reaches one
\* of the three handlers rejects the caller's promise with that failure.
HandledFinalFailureIsTerminal ==
    (~cfg.simulateMarketData /\ req[R] = "failed") =>
        /\ promise[0] = Rejected(lastFailure.kind, lastFailure.detail, lastFailure.code)
        /\ lastFailure.attempt = R
        /\ requests = R + 1
        /\ timer[R] = 0

\* C5: an attempt whose timeout has fired is over and is handled like a
\* transport error: a retry is scheduled when attempt < R, the call is
\* rejected with a network failure otherwise.
C5_TimeoutIsTransportError ==
    \A k \in Attempts :
        timedOut[k] =>
            /\ req[k] = "failed"
            /\ k < R => scheduled[k] = 1
            /\ k >= R => (promise[0].st = "rejected" /\ promise[0].kind = "network")

(***************************************************************************)
(* Properties of proposeOrder and of main().                               *)
(***************************************************************************)
Returned == ppc = "returned"

\* floor((advUsd * maxPctAdv) / price)
LiquidityCap ==
    MathFloor(Div(Mul(pin.quote.advUsd, cfg.maxPctAdv), pin.quote.price))

\* floor((equity * targetRiskBps / 10000) / (price * 0.02))
RiskCap ==
    MathFloor(Div(Div(Mul(pin.equity, cfg.targetRiskBps), Num(10000)),
                  Mul(pin.quote.price, DailyVol)))

\* min(sharesRisk, sharesLiquidity) of the call's arguments
MinShares ==
    MathMin(riskScaledShares(pin.quote.price, DailyVol, pin.equity, cfg.targetRiskBps),
            maxSharesByLiquidity(pin.quote.advUsd, pin.quote.price, cfg.maxPctAdv))

\* C6: the quantity of every returned order is a non-negative integer that
\* exceeds neither the liquidity cap nor the risk cap.
C6_QtyWithinCaps ==
    (Returned /\ presult.tag = "order") =>
        /\ IsInteger(presult.order.qty)
        /\ Le(Num(0), presult.order.qty)
        /\ Le(presult.order.qty, LiquidityCap)
        /\ Le(presult.order.qty, RiskCap)

\* The part of C6 that the code keeps: the caps hold for every quote whose
\* price is a positive number.
QtyWithinCapsForPositivePrice ==
    (Returned /\ presult.tag = "order" /\ Gt(pin.quote.price, Num(0))) =>
        /\ IsInteger(presult.order.qty)
        /\ Gt(presult.order.qty, Num(0))
        /\ Le(presult.order.qty, LiquidityCap)
        /\ Le(presult.order.qty, RiskCap)

\* C7 as stated: no order has quantity 0; advUsd < minAdvUsd gives the
\* rejection "insufficient liquidity"; min(sharesRisk, sharesLiquidity) <= 0
\* gives the rejection "zero shares after constraints"; a rejection carries no
\* order.
C7_AsStated ==
    Returned =>
        /\ presult.tag = "order" => presult.order.qty # Num(0)
        /\ InsufficientLiquidity(pin.quote.advUsd) =>
               presult = ErrorResult("Insufficient liquidity")
        /\ Le(MinShares, Num(0)) =>
               presult = ErrorResult("Zero shares after constraints")

\* C7 (amended): no order has quantity 0; advUsd < minAdvUsd gives the
\* rejection "insufficient liquidity"; otherwise min(sharesRisk,
\* sharesLiquidity) <= 0 gives the rejection "zero shares after constraints";
\* a rejection carries no order.
C7_GateFailureIsRejection ==
    Returned =>
        /\ presult.tag = "order" => presult.order.qty # Num(0)
        /\ InsufficientLiquidity(pin.quote.advUsd) =>
               presult = ErrorResult("Insufficient liquidity")
        /\ (~InsufficientLiquidity(pin.quote.advUsd) /\ Le(MinShares, Num(0))) =>
               presult = ErrorResult("Zero shares after constraints")

C7_Witness ==
    /\ Returned
    /\ ~InsufficientLiquidity(pin.quote.advUsd)
    /\ Gt(pin.quote.price, Num(0))
    /\ plocal.shares = Num(0)
    /\ presult = ErrorResult("Zero shares after constraints")

\* C8: a quote with price <= 0 is rejected, and no division by price is
\* evaluated before the rejection.
C8_NonPositivePriceRejectedFirst ==
    (ppc # "idle" /\ Le(pin.quote.price, Num(0))) =>
        /\ divisions = 0
        /\ Returned => presult.tag = "error"

\* C9: every quote fetchQuote resolves with has price > 0, volume >= 0 and
\* advUsd = price * volume; a first result without a numeric price or volume
\* never becomes a quote.
C9_ResolvedQuoteWellFormed ==
    \A k \in Attempts :
        promise[k].st = "resolved" =>
            /\ Gt(promise[k].quote.price, Num(0))
            /\ Le(Num(0), promise[k].quote.volume)
            /\ promise[k].quote.advUsd =
                   Mul(promise[k].quote.price, promise[k].quote.volume)

\* C10: in main, proposeOrder is called only after fetchQuote has returned a
\* quote, and with that quote; a rejected fetch ends the flow with the error
\* report and no proposal.
C10_NoProposalWithoutQuote ==
    /\ proposeCalls <= 1
    /\ proposeCalls > 0 =>
           (promise[0].st = "resolved" /\ pin.quote = promise[0].quote)
    /\ promise[0].st # "resolved" =>
           (proposeCalls = 0 /\ ppc = "idle" /\ presult = NoResult)
    /\ (promise[0].st = "rejected" /\ mainpc = "done") =>
           console = << <<"error", "Error fetching market data">> >>

C10_Witness ==
    /\ promise[0].st = "rejected"
    /\ mainpc = "done"
    /\ requests >= 2
    /\ proposeCalls = 0
    /\ console = << <<"error", "Error fetching market data">> >>

\* hardStop = price * (1 - hardStopPct)
HardStop == Mul(pin.quote.price, Sub(Num(1), cfg.hardStopPct))

\* trailingStop = price - trailingAtrMult * (0.02 * price)
TrailingStop ==
    Sub(pin.quote.price, Mul(cfg.trailingAtrMult, Mul(Frac(2, 100), pin.quote.price)))

\* Half a unit of the fourth decimal place.
HalfUnit == Frac(1, 20000)

\* C11 as stated: the stop placed in the order, after rounding to 4 decimal
\* places, is not below hardStop and not below trailingStop.  (For an order
\* built from a NaN price all three values are NaN and nothing is below
\* anything.)
C11_AsStated ==
    (Returned /\ presult.tag = "order") =>
        /\ ~Lt(presult.order.stop, HardStop)
        /\ ~Lt(presult.order.stop, TrailingStop)

\* C11 (amended): the stop placed in the order is max(hardStop, trailingStop)
\* rounded to 4 decimal places; it is never lower than hardStop or
\* trailingStop by more than 0.00005.
C11_RoundedStopNearMax ==
    (Returned /\ presult.tag = "order") =>
        /\ presult.order.stop = ToFixed4(MathMax(HardStop, TrailingStop))
        /\ ~Lt(presult.order.stop, Sub(HardStop, HalfUnit))
        /\ ~Lt(presult.order.stop, Sub(TrailingStop, HalfUnit))

C11_Witness ==
    /\ Returned
    /\ presult.tag = "order"
    /\ Gt(presult.order.qty, Num(0))
    /\ Lt(HardStop, TrailingStop)
    /\ Lt(presult.order.stop, TrailingStop)
    /\ Le(Sub(TrailingStop, HalfUnit), presult.order.stop)

\* C12: proposeOrder called with equity <= 0 returns a rejection, never an
\* order with a negative or undefined quantity; the rejection is "zero shares
\* after constraints" (read in the order of the steps: once the liquidity gate
\* has let the quote through).
C12_NonPositiveEquityRejected ==
    (Returned /\ Le(pin.equity, Num(0))) =>
        /\ presult.tag = "error"
        /\ ~InsufficientLiquidity(pin.quote.advUsd) =>
               presult = ErrorResult("Zero shares after constraints")

\* The part of C12 that the code keeps: with equity <= 0 and a price that is
\* a positive number the result is a rejection.
NonPositiveEquityRejectedForPositivePrice ==
    (Returned /\ Le(pin.equity, Num(0)) /\ Gt(pin.quote.price, Num(0))) =>
        /\ presult.tag = "error"
        /\ ~InsufficientLiquidity(pin.quote.advUsd) =>
               presult = ErrorResult("Zero shares after constraints")

(***************************************************************************)
(* Properties of fetchQuote: simulation mode and settlement.               *)
(***************************************************************************)
\* C13: with simulateMarketData set, fetchQuote issues no network request,
\* schedules no retry and no backoff wait, and the call returns the quote
\* {simulatedPrice, simulatedVolume, simulatedPrice * simulatedVolume}; the
\* branch reads neither the symbol nor any state besides the configuration.
C13_SimulationIsOffline ==
    cfg.simulateMarketData =>
        /\ requests = 0
        /\ delays = << >>
        /\ \A k \in Attempts :
             req[k] = "none" /\ issued[k] = 0 /\ scheduled[k] = 0 /\ timer[k] = 0
        /\ mainpc \notin {"start", "fetch"} =>
               /\ promise[0].st = "resolved"
               /\ promise[0].quote.price = cfg.simulatedPrice
               /\ promise[0].quote.volume = cfg.simulatedVolume
               /\ promise[0].quote.advUsd = Mul(cfg.simulatedPrice, cfg.simulatedVolume)

C13_Witness ==
    /\ cfg.simulateMarketData
    /\ mainpc = "done"
    /\ promise[0].st = "resolved"
    /\ promise[0].quote.price = Num(10)
    /\ promise[0].quote.advUsd = Num(1000000)
    /\ requests = 0

\* The top-level call fetchQuote(symbol) has been made.
Called == mainpc \notin {"start", "fetch", "module"}

\* Something of the call is still to come: a request that has not finished
\* or a backoff timer that has not fired.
Outstanding == \E k \in Attempts : req[k] \in InFlight \/ timer[k] > 0

\* C14: a call settles, by a quote or by a failure, once every started
\* attempt has delivered its end, its error or its timeout and every backoff
\* timer has fired: a call that has not settled still has an attempt in
\* flight or a timer armed.  A well-formed 2xx payload at attempt k settles
\* the call at once, with no further attempt and no wait.
C14_SettlesWhenEventsDelivered ==
    /\ (Called /\ promise[0].st = "pending") => Outstanding
    /\ \A k \in Attempts :
         req[k] = "succeeded" =>
             /\ promise[0].st = "resolved"
             /\ ~Outstanding
             /\ requests = k + 1
             /\ scheduled[k] = 0

\* The parts of C14 that the code keeps: success settles at once, and a
\* call is left unsettled with nothing outstanding only by a timeout that
\* fired during a response.
SettlesUnlessAbortedByTimeout ==
    /\ (Called /\ promise[0].st = "pending" /\ ~Outstanding) =>
           \E k \in Attempts : req[k] = "aborted" /\ timedOut[k]
    /\ \A k \in Attempts :
         req[k] = "succeeded" =>
             /\ promise[0].st = "resolved"
             /\ ~Outstanding
             /\ requests = k + 1
             /\ scheduled[k] = 0

\* A settled promise keeps its state and value: the call settles once.
SettledOnce ==
    [][\A k \in Attempts :
          promise[k].st \in {"resolved", "rejected"} => promise'[k] = promise[k]]_vars

=============================================================================
